---- MODULE Spec2Model ----
(***************************************************************************)
(* Model of src/js/seguridad.js: the function showSolutionPrompt, which    *)
(* looks an exercise identifier up in a switch, asks for a password with   *)
(* the blocking prompt() and, when the text typed is the password of the   *)
(* exercise, sets style.display of the element 'solution-' + exerciseId to *)
(* 'block'.                                                                *)
(*                                                                         *)
(* An invocation takes two steps, because prompt() blocks until the user   *)
(* answers: Invoke (lines 7-30, up to the prompt being shown, or the       *)
(* default case's return) and Answer (lines 30-52, from prompt()'s         *)
(* return to the end of the function).                                     *)
(***************************************************************************)
EXTENDS Naturals, Sequences, FiniteSets

\* ------------------------------------------------------------------------
\* JavaScript values: strings, null and undefined. === is equality of these.

Str(s) == [type |-> "string", val |-> s]
Null == [type |-> "null", val |-> ""]
Undefined == [type |-> "undefined", val |-> ""]

\* ------------------------------------------------------------------------
\* Bounds and the inputs drawn by the actions.

\* `fails` counts the invocations that revealed nothing, up to this bound.
MaxFails == 3

\* The identifiers an invocation may be given: the three of the switch and
\* one that it does not list.
ExerciseIds == {"UD1-1", "UD1-2", "db-05", "nonexistent-id"}

\* What prompt() may return: the text typed, or null when cancelled.
Texts == {"cliente-servidor", "http", "persistencia_nexus",
          "Cliente-Servidor", "HTTP", "", "wrong"}
PromptResults == {Str(t) : t \in Texts} \cup {Null}

\* ------------------------------------------------------------------------
\* The pieces of showSolutionPrompt.

\* The case labels of the switch and the password each one assigns
\* (lines 13-20).
ExerciseRegistry ==
  [id \in {"UD1-1", "UD1-2", "db-05"} |->
     CASE id = "UD1-1" -> "cliente-servidor"
       [] id = "UD1-2" -> "http"
       [] id = "db-05" -> "persistencia_nexus"]

\* Whether the switch has a case for id; otherwise the default case runs.
Registered(id) == id \in DOMAIN ExerciseRegistry

\* A switch whose first case lacks its break: 'UD1-1' falls through to the
\* assignment of 'UD1-2'.
CorrectPasswordNoBreak(id) ==
  IF Registered(id)
  THEN Str(ExerciseRegistry[IF id = "UD1-1" THEN "UD1-2" ELSE id])
  ELSE Undefined

\* correctPassword after the switch (line 8, lines 12-21): the password of
\* the case taken, each case ending in break; undefined in the default case.
CorrectPassword(id) ==
  IF Registered(id) THEN Str(ExerciseRegistry[id]) ELSE Undefined

\* 'solution-' + exerciseId (line 40).
SolutionBlockId(id) == "solution-" \o id

\* The elements a page may hold: one per identifier.
ElementIds == {"solution-" \o id : id \in ExerciseIds}

\* What the user sees and what the console receives, in order.
Alert(m) == [kind |-> "alert", args |-> <<m>>]
Prompt(m) == [kind |-> "prompt", args |-> <<m>>]
ConsoleError(a) == [kind |-> "console.error", args |-> a]

PromptMessage(id) ==
  "Introduce la contraseña para ver la solución del ejercicio \"" \o id \o "\":"

VARIABLES
  page,             \* the ids of the elements the document holds
  display,          \* style.display of each element of the page
  pc,               \* where the invocation is: idle, prompt, or how it ended
  exerciseId,       \* the parameter of the invocation
  correctPassword,  \* the local of line 8
  enteredPassword,  \* the local of line 30
  events,           \* prompts, alerts and console errors of the invocation
  display0,         \* history: display when the invocation began
  prev,             \* history: the invocation before this one
  fails,            \* history: invocations that revealed nothing (capped)
  unlocked          \* history: ids whose password has been entered

vars == <<page, display, pc, exerciseId, correctPassword, enteredPassword,
          events, display0, prev, fails, unlocked>>

Terminal == {"ConfigError", "Cancelled", "Revealed", "MissingSolutionElement",
             "WrongPassword"}

NoCall == [id |-> Undefined, entered |-> Undefined, events |-> <<>>,
           pc |-> "idle"]

Min(a, b) == IF a < b THEN a ELSE b

\* document.getElementById (line 40): the element, or null.
getElementById(id) == IF id \in page THEN Str(id) ELSE Null

\* A comparison that ignores case (both sides lowered before ===).
ToLowerCase(s) ==
  CASE s = "Cliente-Servidor" -> "cliente-servidor"
    [] s = "HTTP" -> "http"
    [] OTHER -> s
MatchesIgnoringCase(entered, correct) ==
  /\ entered.type = "string"
  /\ correct.type = "string"
  /\ ToLowerCase(entered.val) = ToLowerCase(correct.val)

\* A lockout: after two invocations that revealed nothing, no password is
\* accepted any more.
MatchesUnlessLockedOut(entered, correct) == fails < 2 /\ entered = correct

\* enteredPassword === correctPassword (line 38).
Matches(entered, correct) == entered = correct

\* A toggle: a visible block is hidden again.
RevealToggle(d, el) ==
  [d EXCEPT ![el] = IF d[el] = "block" THEN "none" ELSE "block"]

\* Every block of the page is shown, not only the one asked for.
RevealAll(d, el) == [e \in DOMAIN d |-> "block"]

\* solutionBlock.style.display = 'block' (line 44).
Reveal(d, el) == [d EXCEPT ![el] = "block"]

\* A default case that lacks its return: after the alert the function goes
\* on to the prompt, with correctPassword still undefined.
LookupRegistryNoReturn(id) ==
  IF Registered(id)
  THEN [pc |-> "prompt", correctPassword |-> CorrectPassword(id),
        events |-> <<Prompt(PromptMessage(id))>>]
  ELSE [pc |-> "prompt", correctPassword |-> Undefined,
        events |-> <<ConsoleError(<<"Error: ID de ejercicio no reconocido:", id>>),
                     Alert("Error de configuración: No se ha encontrado el ejercicio."),
                     Prompt(PromptMessage(id))>>]

\* The switch (lines 12-27): the password of a listed id and on to the
\* prompt, or the default case's console.error, alert and return.
LookupRegistry(id) ==
  IF Registered(id)
  THEN [pc |-> "prompt", correctPassword |-> CorrectPassword(id),
        events |-> <<Prompt(PromptMessage(id))>>]
  ELSE [pc |-> "ConfigError", correctPassword |-> Undefined,
        events |-> <<ConsoleError(<<"Error: ID de ejercicio no reconocido:", id>>),
                     Alert("Error de configuración: No se ha encontrado el ejercicio.")>>]

\* No test for null: a cancelled prompt is compared like a text, and null
\* equals no password.
OnCancelCompared(d, ev) ==
  [pc |-> "WrongPassword", display |-> d,
   events |-> Append(ev, Alert("Contraseña incorrecta."))]

\* enteredPassword === null (lines 33-35): return, nothing else.
OnCancel(d, ev) == [pc |-> "Cancelled", display |-> d, events |-> ev]

\* No else branch: a missing element is passed over in silence.
OnMatchSilent(id, d, ev) ==
  LET solutionBlock == getElementById(SolutionBlockId(id)) IN
  IF solutionBlock /= Null
  THEN [pc |-> "Revealed", display |-> Reveal(d, solutionBlock.val),
        events |-> ev]
  ELSE [pc |-> "MissingSolutionElement", display |-> d, events |-> ev]

\* The password matched (lines 40-48).
OnMatch(id, d, ev) ==
  LET solutionBlock == getElementById(SolutionBlockId(id)) IN
  IF solutionBlock /= Null
  THEN [pc |-> "Revealed", display |-> Reveal(d, solutionBlock.val),
        events |-> ev]
  ELSE [pc |-> "MissingSolutionElement", display |-> d,
        events |-> ev \o
          <<ConsoleError(<<"Error: No se encontró el bloque de solución con el ID: solution-" \o id>>),
            Alert("Error de configuración: No se encuentra el contenido de la solución.")>>]

\* A wrong password asks again instead of returning.
OnMismatchRetry(id, d, ev) ==
  [pc |-> "prompt", display |-> d,
   events |-> ev \o <<Alert("Contraseña incorrecta."), Prompt(PromptMessage(id))>>]

\* A wrong password hides the block again.
OnMismatchHide(id, d, ev) ==
  [pc |-> "WrongPassword",
   display |-> [e \in DOMAIN d |-> IF e = "solution-" \o id THEN "none" ELSE d[e]],
   events |-> Append(ev, Alert("Contraseña incorrecta."))]

\* The password did not match (lines 49-52).
OnMismatch(id, d, ev) ==
  [pc |-> "WrongPassword", display |-> d,
   events |-> Append(ev, Alert("Contraseña incorrecta."))]

\* Lines 33-52, given what prompt() returned.
AfterPrompt(id, entered, correct, d, ev) ==
  IF entered = Null THEN OnCancel(d, ev)
  ELSE IF Matches(entered, correct) THEN OnMatch(id, d, ev)
  ELSE OnMismatch(id, d, ev)

\* ------------------------------------------------------------------------
\* The state machine.

Init ==
  /\ page \in SUBSET ElementIds
  /\ display = [e \in page |-> "none"]
  /\ pc = "idle"
  /\ exerciseId = Undefined
  /\ correctPassword = Undefined
  /\ enteredPassword = Undefined
  /\ events = <<>>
  /\ display0 = display
  /\ prev = NoCall
  /\ fails = 0
  /\ unlocked = {}

\* showSolutionPrompt(id) is called (a click on a button of the page) and
\* runs to the prompt, or to the default case's return (lines 7-30).
Invoke(id) ==
  /\ pc /= "prompt"
  /\ LET r == LookupRegistry(id) IN
       /\ pc' = r.pc
       /\ correctPassword' = r.correctPassword
       /\ events' = r.events
       /\ fails' = IF r.pc = "ConfigError" THEN Min(fails + 1, MaxFails)
                   ELSE fails
  /\ exerciseId' = Str(id)
  /\ enteredPassword' = Undefined
  /\ display0' = display
  /\ prev' = IF pc = "idle" THEN NoCall
             ELSE [id |-> exerciseId, entered |-> enteredPassword,
                   events |-> events, pc |-> pc]
  /\ UNCHANGED <<page, display, unlocked>>

\* prompt() returns what the user typed, or null, and the function runs to
\* its end (lines 30-52).
Answer(entered) ==
  /\ pc = "prompt"
  /\ enteredPassword' = entered
  /\ LET r == AfterPrompt(exerciseId.val, entered, correctPassword, display,
                          events) IN
       /\ pc' = r.pc
       /\ display' = r.display
       /\ events' = r.events
       /\ fails' = IF r.pc = "Revealed" THEN fails
                   ELSE Min(fails + 1, MaxFails)
  /\ unlocked' = IF /\ Registered(exerciseId.val)
                    /\ entered = Str(ExerciseRegistry[exerciseId.val])
                 THEN unlocked \cup {exerciseId.val} ELSE unlocked
  /\ UNCHANGED <<page, exerciseId, correctPassword, display0, prev>>

Next ==
  \/ \E id \in ExerciseIds : Invoke(id)
  \/ \E entered \in PromptResults : Answer(entered)

Spec == Init /\ [][Next]_vars

\* The user answers or cancels every prompt.
FairSpec == Spec /\ WF_vars(\E entered \in PromptResults : Answer(entered))

\* ------------------------------------------------------------------------
\* Properties.

\* The parts of an invocation's events.
OfKind(ev, kinds) == SelectSeq(ev, LAMBDA e : e.kind \in kinds)
Alerts(ev) == OfKind(ev, {"alert"})
Prompts(ev) == OfKind(ev, {"prompt"})
Notifications(ev) == OfKind(ev, {"alert", "console.error"})
Interactions(ev) == OfKind(ev, {"alert", "prompt"})

WrongPasswordAlert == Alert("Contraseña incorrecta.")
UnrecognizedExerciseAlert ==
  Alert("Error de configuración: No se ha encontrado el ejercicio.")
MissingSolutionElementAlert ==
  Alert("Error de configuración: No se encuentra el contenido de la solución.")

\* The invocation has returned.
Returned == pc \in Terminal

\* The invocation was given a registered id and the user typed exactly its
\* registered password.
EnteredRegisteredPassword ==
  /\ exerciseId.type = "string"
  /\ exerciseId.val \in DOMAIN ExerciseRegistry
  /\ enteredPassword = Str(ExerciseRegistry[exerciseId.val])

\* C1: an invocation with a registered id in which the user enters exactly
\* the registered password, the element 'solution-' + id being on the page,
\* ends with that element's display 'block' and with no alert shown.
C1_CorrectPasswordReveals ==
  (Returned /\ EnteredRegisteredPassword
     /\ ("solution-" \o exerciseId.val) \in page)
  => /\ display["solution-" \o exerciseId.val] = "block"
     /\ Alerts(events) = <<>>

\* The three registered ids have each been revealed by their password, the
\* last one being db-05.
C1_Witness ==
  /\ Returned /\ EnteredRegisteredPassword
  /\ exerciseId = Str("db-05")
  /\ {"solution-UD1-1", "solution-UD1-2", "solution-db-05"} \subseteq page
  /\ \A e \in {"solution-UD1-1", "solution-UD1-2", "solution-db-05"} :
       display[e] = "block"
  /\ display0["solution-db-05"] = "none"

\* C2: an invocation with a registered id in which the text entered is not
\* exactly (case-sensitively) the registered password, the empty string and
\* case variants included, leaves every element's display unchanged and
\* emits exactly the alert 'Contraseña incorrecta.'.
C2_WrongPasswordOnlyAlerts ==
  (/\ Returned
   /\ exerciseId.val \in DOMAIN ExerciseRegistry
   /\ enteredPassword.type = "string"
   /\ enteredPassword.val /= ExerciseRegistry[exerciseId.val])
  => /\ display = display0
     /\ Notifications(events) = <<WrongPasswordAlert>>
     /\ pc = "WrongPassword"

\* A case variant of the password is rejected right after the empty string
\* was, on a page where the element exists and is hidden.
C2_Witness ==
  /\ pc = "WrongPassword"
  /\ exerciseId = Str("UD1-1")
  /\ enteredPassword = Str("Cliente-Servidor")
  /\ prev.pc = "WrongPassword" /\ prev.entered = Str("")
  /\ "solution-UD1-1" \in page /\ display["solution-UD1-1"] = "none"

\* C3: an invocation with an id that is no key of the registry never shows
\* the prompt, emits the configuration-error alert, leaves every element's
\* display unchanged, and the alert is its only user interaction.
C3_UnrecognizedExercise ==
  (exerciseId.type = "string" /\ exerciseId.val \notin DOMAIN ExerciseRegistry)
  => /\ pc = "ConfigError"
     /\ Prompts(events) = <<>>
     /\ Interactions(events) = <<UnrecognizedExerciseAlert>>
     /\ \E e \in 1..Len(events) : events[e].kind = "console.error"
     /\ display = display0

\* An unrecognized id is given on a page that holds an element named after
\* it and a revealed element of a registered id.
C3_Witness ==
  /\ pc = "ConfigError"
  /\ exerciseId = Str("nonexistent-id")
  /\ "solution-nonexistent-id" \in page
  /\ display["solution-nonexistent-id"] = "none"
  /\ "solution-UD1-2" \in page /\ display["solution-UD1-2"] = "block"

\* C4: an invocation with a registered id in which the user cancels the
\* prompt leaves every element's display unchanged and emits no alert and
\* no diagnostic trace.
C4_CancelIsSilent ==
  (Returned /\ enteredPassword = Null)
  => /\ pc = "Cancelled"
     /\ display = display0
     /\ Notifications(events) = <<>>

\* The prompt of a registered id is cancelled, on a page with an element
\* hidden and another revealed.
C4_Witness ==
  /\ pc = "Cancelled" /\ enteredPassword = Null
  /\ exerciseId = Str("UD1-2")
  /\ "solution-UD1-2" \in page /\ display["solution-UD1-2"] = "none"
  /\ "solution-UD1-1" \in page /\ display["solution-UD1-1"] = "block"

\* C5: an invocation with a registered id in which the correct password is
\* entered while the element 'solution-' + id is not on the page leaves
\* every element's display unchanged and emits the MissingSolutionElement
\* notification (diagnostic trace, then alert), which comes only after the
\* prompt has been shown and answered.
C5_MissingSolutionElement ==
  /\ (Returned /\ EnteredRegisteredPassword
        /\ ("solution-" \o exerciseId.val) \notin page)
     => /\ pc = "MissingSolutionElement"
        /\ display = display0
        /\ Len(events) = 3
        /\ events[1].kind = "prompt"
        /\ events[2].kind = "console.error"
        /\ events[3] = MissingSolutionElementAlert
  /\ (pc = "prompt" => Notifications(events) = <<>>)

\* The password of db-05 is entered on a page without solution-db-05 that
\* holds a revealed element of another id.
C5_Witness ==
  /\ pc = "MissingSolutionElement"
  /\ exerciseId = Str("db-05") /\ enteredPassword = Str("persistencia_nexus")
  /\ "solution-db-05" \notin page
  /\ "solution-UD1-1" \in page /\ display["solution-UD1-1"] = "block"

\* C6: invoking twice in succession for the same registered id, with the
\* correct password both times, yields the page state of invoking once: the
\* element is visible after the first call and still visible after the
\* second, and neither call emits a notification.
C6_RevealIdempotent ==
  (/\ Returned /\ EnteredRegisteredPassword
   /\ ("solution-" \o exerciseId.val) \in page
   /\ prev.pc \in Terminal
   /\ prev.id = exerciseId /\ prev.entered = enteredPassword)
  => /\ display0["solution-" \o exerciseId.val] = "block"
     /\ display = display0
     /\ Notifications(prev.events) = <<>>
     /\ Notifications(events) = <<>>

\* UD1-1 is revealed by its password twice in succession.
C6_Witness ==
  /\ pc = "Revealed" /\ prev.pc = "Revealed"
  /\ exerciseId = Str("UD1-1") /\ prev.id = Str("UD1-1")
  /\ enteredPassword = Str("cliente-servidor")
  /\ prev.entered = Str("cliente-servidor")
  /\ display["solution-UD1-1"] = "block"

\* The outcome the identifier, the answer and the presence of the element
\* determine.
ExpectedOutcome(id, entered, exists) ==
  CASE id \notin DOMAIN ExerciseRegistry -> "ConfigError"
    [] id \in DOMAIN ExerciseRegistry /\ entered = Null -> "Cancelled"
    [] id \in DOMAIN ExerciseRegistry /\ entered = Str(ExerciseRegistry[id])
         -> IF exists THEN "Revealed" ELSE "MissingSolutionElement"
    [] OTHER -> "WrongPassword"

ExpectedAlerts(outcome) ==
  CASE outcome = "ConfigError" -> <<UnrecognizedExerciseAlert>>
    [] outcome = "MissingSolutionElement" -> <<MissingSolutionElementAlert>>
    [] outcome = "WrongPassword" -> <<WrongPasswordAlert>>
    [] OTHER -> <<>>

\* C7: the outcome of an invocation depends only on its identifier, the
\* text entered (or the cancellation) and whether the target element is on
\* the page, never on earlier invocations; after any sequence of wrong,
\* cancelled or unrecognized invocations, a registered id with its correct
\* password still reveals the element.
C7_InvocationsIndependent ==
  Returned =>
    LET outcome == ExpectedOutcome(exerciseId.val, enteredPassword,
                                   ("solution-" \o exerciseId.val) \in page)
    IN /\ pc = outcome
       /\ Alerts(events) = ExpectedAlerts(outcome)
       /\ outcome = "Revealed" => display["solution-" \o exerciseId.val] = "block"
       /\ outcome /= "Revealed" => display = display0

\* A hidden element is revealed after as many invocations that revealed
\* nothing as the model counts, the last of them a wrong password.
C7_Witness ==
  /\ pc = "Revealed" /\ fails = MaxFails
  /\ prev.pc = "WrongPassword"
  /\ display0["solution-" \o exerciseId.val] = "none"
  /\ display["solution-" \o exerciseId.val] = "block"

\* C8: display is written only on the matched-and-found path, and an
\* invocation with identifier id changes at most the display of the element
\* 'solution-' + id; the elements of the page stay the same.
C8_OnlyTargetWritten ==
  [][/\ page' = page
     /\ DOMAIN display' = page
     /\ \A e \in page :
          display'[e] /= display[e]
          => /\ e = "solution-" \o exerciseId'.val
             /\ pc' = "Revealed"
             /\ exerciseId'.val \in DOMAIN ExerciseRegistry
             /\ enteredPassword' = Str(ExerciseRegistry[exerciseId'.val])]_vars

\* UD1-2 has just been revealed while the elements of the three other
\* identifiers, all on the page, stayed hidden.
C8_Witness ==
  /\ pc = "Revealed" /\ exerciseId = Str("UD1-2")
  /\ page = {"solution-" \o id : id \in ExerciseIds}
  /\ display0["solution-UD1-2"] = "none"
  /\ \A e \in page : display[e] = IF e = "solution-UD1-2" THEN "block" ELSE "none"

\* C9: every invocation follows the per-invocation state machine and
\* terminates: once the user answers or cancels the prompt it ends in one of
\* ConfigError, Cancelled, Revealed, MissingSolutionElement, WrongPassword;
\* it shows at most one alert, and shows the prompt at most once and only
\* after the identifier was found in the registry.
C9_StateMachine ==
  /\ [](/\ pc \in {"idle", "prompt"} \cup Terminal
        /\ Len(Alerts(events)) <= 1
        /\ Len(Prompts(events)) <= 1
        /\ Prompts(events) /= <<>>
           => /\ exerciseId.val \in DOMAIN ExerciseRegistry
              /\ events[1].kind = "prompt"
        /\ pc = "prompt" => Len(Prompts(events)) = 1
        /\ pc = "ConfigError" <=> (exerciseId.type = "string" /\
                                   exerciseId.val \notin DOMAIN ExerciseRegistry))
  /\ [][IF pc = "prompt"
        THEN pc' \in Terminal \ {"ConfigError"}
        ELSE pc' \in {"prompt", "ConfigError"}]_vars
  /\ (pc = "prompt" ~> pc \in Terminal \ {"ConfigError"})

\* An invocation that went through the prompt has ended after one that
\* ended at the lookup.
C9_Witness ==
  /\ pc = "MissingSolutionElement" /\ Len(events) = 3
  /\ prev.pc = "ConfigError"

\* C10: once an element has been made visible, no later invocation, with
\* any identifier and any input, hides it again; and an element is visible
\* only if an earlier invocation for its identifier received the correct
\* password.
C10_VisibilityMonotonic ==
  /\ [](\A e \in page :
          display[e] = "block" => \E id \in unlocked : e = "solution-" \o id)
  /\ [][\A e \in page : display[e] = "block" => display'[e] = "block"]_vars

\* A wrong password for UD1-1 has been entered right after UD1-1 was
\* revealed, and the element is still visible.
C10_Witness ==
  /\ pc = "WrongPassword" /\ exerciseId = Str("UD1-1")
  /\ prev.pc = "Revealed" /\ prev.id = Str("UD1-1")
  /\ display["solution-UD1-1"] = "block"
  /\ unlocked = {"UD1-1"}

====
